---- MODULE Spec2Model ----
(***************************************************************************)
(* Model of the school video-sharing backend: the user repository, the     *)
(* license validator and the video repository over one object-storage      *)
(* bucket, together with the HTTP handlers that call them.                  *)
(*                                                                          *)
(* The bucket is the only persistent state; the server also keeps the       *)
(* password-reset tokens in memory.  Every repository function is a         *)
(* sequence of store calls (get/put/list/delete/head); a store call can     *)
(* fail, and an action's `fault` input names the call of that invocation    *)
(* that fails ("none": every call succeeds).  An action is one whole,       *)
(* non-overlapping invocation, except for the createUser, updateUser and    *)
(* listVideos calls of the processes, which take a step for each store      *)
(* call.                                                                    *)
(*                                                                          *)
(* Objects are kept as the values their JSON text parses to: the bodies are *)
(* plain objects of strings, booleans and arrays of strings, which          *)
(* JSON.stringify and JSON.parse give back field for field.  The bucket     *)
(* name of uploadVideo (S3_BUCKET_NAME) and the one of the other functions  *)
(* name the same bucket.  listVideos returns its entries as a set.          *)
(***************************************************************************)
EXTENDS Integers, Sequences, FiniteSets, TLC

VARIABLES
    users,      \* objects users/<email>.json: [stored emails -> parsed record]
    objects,    \* every other object of the bucket: [key -> body]
    last,       \* the most recent call: its arguments and what its caller saw
    tokens,     \* the password-reset tokens in memory: [token -> e-mail]
    calls       \* the calls that run store call by store call: [process -> position]

vars == <<users, objects, last, tokens, calls>>

----------------------------------------------------------------------------
(* Bounds of the model *)

\* longest classCodesArray the model lets updateUser build
MaxCodes == 2

\* number of e-mail addresses of the license-limit specification
MaxLimitUsers == 11

----------------------------------------------------------------------------
(* License tables *)

\* licenseKeyLimits: license key -> maximum number of accounts
licenseKeyLimits ==
    [k \in {"BurnsideHighSchool", "MP003", "3399", "STUDENT_KEY_1", "TEACHER_KEY_2"} |->
        CASE k = "BurnsideHighSchool" -> 4
          [] k = "MP003"              -> 8
          [] k = "3399"               -> 20
          [] k = "STUDENT_KEY_1"      -> 10
          [] k = "TEACHER_KEY_2"      -> 10]

\* validLicenseKeys: account type -> license keys accepted for it
validLicenseKeys ==
    [t \in {"student", "teacher"} |->
        IF t = "student" THEN {"STUDENT_KEY_1", "STUDENT_KEY_2"}
                         ELSE {"TEACHER_KEY_1", "TEACHER_KEY_2"}]

\* a limit table in which an unlisted key falls back to one seat
limitFor_defaultOne(k) ==
    IF k \in DOMAIN licenseKeyLimits THEN licenseKeyLimits[k] ELSE 1

\* licenseKeyLimits[userData.licenseKey] || 0
limitFor(k) ==
    IF k \in DOMAIN licenseKeyLimits THEN licenseKeyLimits[k] ELSE 0

----------------------------------------------------------------------------
(* Input domains *)

\* e-mail addresses of the license-limit specification, in a fixed order
EmailPool ==
    <<"u01@x", "u02@x", "u03@x", "u04@x", "u05@x", "u06@x", "u07@x",
      "u08@x", "u09@x", "u10@x", "u11@x", "u12@x", "u13@x", "u14@x">>

LimitEmails == {EmailPool[i] : i \in 1..MaxLimitUsers}

Emails == {"a@x", "b@x"}

\* "admin" stands for any account type that is no key of validLicenseKeys
AccountTypes == {"student", "teacher", "admin"}

\* "BOGUS" stands for any key that occurs in no table
LicenseKeys ==
    {"STUDENT_KEY_1", "STUDENT_KEY_2", "TEACHER_KEY_1", "TEACHER_KEY_2", "3399", "BOGUS"}

\* "" is the missing/empty firstName
FirstNames == {"Ann", ""}

\* "rename" stands for any action other than 'add' and 'delete'
UpdateActions == {"add", "delete", "rename"}

----------------------------------------------------------------------------
(* The users/ namespace of the bucket *)

Stored(u, email) == email \in DOMAIN u

\* PutObject users/<email>.json
PutUser(u, email, rec) ==
    [e \in (DOMAIN u) \cup {email} |-> IF e = email THEN rec ELSE u[e]]

\* DeleteObject users/<email>.json (succeeds whether or not the key exists)
RemoveUser(u, email) == [e \in (DOMAIN u) \ {email} |-> u[e]]

\* !user.email || !user.firstName || !user.accountType
Malformed(rec) == rec.email = "" \/ rec.firstName = "" \/ rec.accountType = ""

StoreErr == "StoreError"
MalformedMsg == "Invalid user data format"
NoError == "none"

\* a listUsers that does not test the required fields
listUsersError_skipInvalid(u, fault) ==
    IF fault = "list" THEN StoreErr
    ELSE IF fault = "getItem" /\ DOMAIN u # {} THEN StoreErr
    ELSE NoError

\* the error listUsers throws (NoError: it returns every stored record): the
\* listing fails, or the fetch of a listed object fails, or a listed record
\* lacks a required field
listUsersError(u, fault) ==
    IF fault = "list" THEN StoreErr
    ELSE IF fault = "getItem" /\ DOMAIN u # {} THEN StoreErr
    ELSE IF \E e \in DOMAIN u : Malformed(u[e]) THEN MalformedMsg
    ELSE NoError

\* listUsers: the array it returns, one parsed record per listed object
\* (nothing when it throws)
listUsersResult(u, fault) ==
    IF listUsersError(u, fault) = NoError THEN {u[e] : e \in DOMAIN u} ELSE {}

\* users.filter(u => u.licenseKey === userData.licenseKey).length
licenseKeyCount(u, k) == Cardinality({e \in DOMAIN u : u[e].licenseKey = k})

\* the limit test with the comparison off by one
LimitReached_offByOne(count, limit) == count > limit

\* licenseKeyCount >= licenseKeyLimit
LimitReached(count, limit) == count >= limit

\* the existence check of createUser: the GetObject result, null when the
\* call rejects for whatever reason (.catch(() => null))
existingUser(u, email, fault) == Stored(u, email) /\ fault # "getExisting"

\* validLicenseKeys[userData.accountType].includes(userData.licenseKey);
\* only evaluated for an account type that is a key of the table
KeyAllowed(t, k) == k \in validLicenseKeys[t]

EmailInUse == "Email already in use"
InvalidKey == "Invalid license key for the selected account type."
LimitMsg == "License key limit reached. No more accounts can be registered with this key."
TypeErr == "TypeError"
RegisterFailed == "Failed to register user"

\* the error raised inside createUser's try block (NoError: none)
createUserCause(u, userData, fault) ==
    IF existingUser(u, userData.email, fault) THEN EmailInUse
    ELSE IF userData.accountType \notin DOMAIN validLicenseKeys THEN TypeErr
    ELSE IF ~KeyAllowed(userData.accountType, userData.licenseKey) THEN InvalidKey
    ELSE IF listUsersError(u, fault) # NoError THEN listUsersError(u, fault)
    ELSE IF LimitReached(licenseKeyCount(u, userData.licenseKey),
                         limitFor(userData.licenseKey)) THEN LimitMsg
    ELSE IF fault = "put" THEN StoreErr
    ELSE NoError

\* what createUser's caller gets: every error caught is replaced by one
\* new Error('Failed to register user')
createUserThrown(cause) == IF cause = NoError THEN NoError ELSE RegisterFailed

Blank == "-"

\* the arguments of the most recent call and what its caller saw: `cause` is
\* the error raised inside the function, `thrown` the error or response that
\* left it
Call(op, email, accountType, licenseKey, classCode, title, fault, cause, thrown) ==
    [op |-> op, email |-> email, accountType |-> accountType,
     licenseKey |-> licenseKey, classCode |-> classCode, title |-> title,
     fault |-> fault, cause |-> cause, thrown |-> thrown]

\* the user object POST /register builds and createUser stores verbatim
UserData(email, firstName, accountType, licenseKey, schoolName, codes) ==
    [email |-> email, firstName |-> firstName, accountType |-> accountType,
     licenseKey |-> licenseKey, schoolName |-> schoolName,
     classCodesArray |-> codes]

----------------------------------------------------------------------------
(* The videos of the bucket.  A key is its '/'-separated segments and its    *)
(* extension: videos/<school>/<classCode>/<email>/<title>.json is            *)
(* [path |-> <<"videos", school, classCode, email, title>>, ext |-> "json"]. *)

Key(path, ext) == [path |-> path, ext |-> ext]

\* the value a missing argument or property has
Undefined == "undefined"

PutObject(objs, key, body) ==
    [k \in (DOMAIN objs) \cup {key} |-> IF k = key THEN body ELSE objs[k]]

DeleteObjects(objs, keys) == [k \in (DOMAIN objs) \ keys |-> objs[k]]

\* ListObjectsV2 with Prefix `<p1>/<p2>/.../`: the keys that start with it
HasPrefix(key, prefix) ==
    /\ Len(key.path) > Len(prefix)
    /\ SubSeq(key.path, 1, Len(prefix)) = prefix

\* uploadVideo: videoPath, set only when the account type is 'student'
videoPath(videoData) ==
    IF videoData.accountType = "student"
    THEN <<"videos", videoData.schoolName, videoData.classCode,
           videoData.userEmail, videoData.title>>
    ELSE <<Undefined>>

\* uploadVideo: the metadata record
Metadata(videoData) ==
    [title |-> videoData.title, subject |-> videoData.subject,
     userId |-> videoData.userId, userEmail |-> videoData.userEmail,
     classCode |-> videoData.classCode, contentType |-> videoData.mimetype,
     viewed |-> FALSE, schoolName |-> videoData.schoolName,
     accountType |-> videoData.accountType,
     videoPath |-> Key(videoPath(videoData), "mp4")]

\* uploadVideo: the error it throws (NoError: it returns)
uploadVideoError(videoData, fault) ==
    IF fault \in {"putMeta", "putMetaAgain", "putVideo"} THEN StoreErr ELSE NoError

\* uploadVideo: what its caller gets, new Error('Failed to upload video: ' +
\* error.message) for every error caught: the prefix and the cause's message
\* (the empty sequence: it returns)
uploadVideoThrown(cause) ==
    IF cause = NoError THEN << >> ELSE <<"Failed to upload video: ", cause>>

\* an uploadVideo that takes the metadata back when a later put fails
uploadVideo_rollback(objs, videoData, fault) ==
    IF fault \in {"putMeta", "putMetaAgain", "putVideo"} THEN objs
    ELSE PutObject(PutObject(objs, Key(videoPath(videoData), "json"),
                             Metadata(videoData)),
                   Key(videoPath(videoData), "mp4"),
                   [buffer |-> videoData.buffer, contentType |-> videoData.mimetype])

\* uploadVideo: the bucket after the call.  The metadata object is put twice,
\* then the payload; a failing put ends the call and nothing is undone
uploadVideo(objs, videoData, fault) ==
    LET withMeta == PutObject(objs, Key(videoPath(videoData), "json"),
                              Metadata(videoData))
        withBoth == PutObject(withMeta, Key(videoPath(videoData), "mp4"),
                              [buffer |-> videoData.buffer,
                               contentType |-> videoData.mimetype])
    IN  IF fault = "putMeta" THEN objs
        ELSE IF fault \in {"putMetaAgain", "putVideo"} THEN withMeta
        ELSE withBoth

\* listVideos: the prefix listed
metadataPrefix(userEmail, accountType, schoolName) ==
    IF accountType = "teacher" THEN <<"videos", schoolName>>
                               ELSE <<"videos", schoolName, userEmail>>

\* listVideos: the teacher filter without the class-code test
TeacherFilter_schoolOnly(metadata, schoolName, classCodes) ==
    metadata.schoolName = schoolName

\* listVideos: metadata.schoolName === schoolName && classCodes.includes(metadata.classCode)
TeacherFilter(metadata, schoolName, classCodes) ==
    /\ metadata.schoolName = schoolName
    /\ \E i \in 1..Len(classCodes) : classCodes[i] = metadata.classCode

\* listVideos: the verification with the payload not looked at
FilesExist_metadataOnly(objs, metadataKey, videoKey) == metadataKey \in DOMAIN objs

\* listVideos: both HeadObject calls succeed
FilesExist(objs, metadataKey, videoKey) ==
    metadataKey \in DOMAIN objs /\ videoKey \in DOMAIN objs

\* listVideos: the listed keys that end in '.json'
Listed(objs, userEmail, accountType, schoolName) ==
    {k \in DOMAIN objs :
        k.ext = "json" /\ HasPrefix(k, metadataPrefix(userEmail, accountType, schoolName))}

\* listVideos: the entry returned for a listed metadata object
Entry(objs, k) ==
    [title |-> objs[k].title, subject |-> objs[k].subject,
     userEmail |-> objs[k].userEmail, classCode |-> objs[k].classCode,
     schoolName |-> objs[k].schoolName, accountType |-> objs[k].accountType,
     viewed |-> objs[k].viewed, videoKey |-> objs[k].videoPath,
     mimeType |-> objs[k].contentType, metadataKey |-> k]

\* listVideos(userEmail, accountType, schoolName, classCodes): the entries
\* returned.  An account type other than 'student' and 'teacher', a failing
\* listing and a failing fetch of a listed object all end in the outer catch,
\* which returns []
listVideos(objs, userEmail, accountType, schoolName, classCodes, fault) ==
    IF accountType \notin {"student", "teacher"} THEN {}
    ELSE IF fault = "list" THEN {}
    ELSE IF fault = "getItem" /\ Listed(objs, userEmail, accountType, schoolName) # {}
         THEN {}
    ELSE {Entry(objs, k) : k \in
            {k \in Listed(objs, userEmail, accountType, schoolName) :
                /\ accountType = "teacher" =>
                       TeacherFilter(objs[k], schoolName, classCodes)
                /\ FilesExist(objs, k, objs[k].videoPath)}}

InvalidType == "Invalid account type"

\* listVideos: the error raised inside its try block (NoError: none)
listVideosCause(objs, userEmail, accountType, schoolName, fault) ==
    IF accountType \notin {"student", "teacher"} THEN InvalidType
    ELSE IF fault = "list" THEN StoreErr
    ELSE IF fault = "getItem" /\ Listed(objs, userEmail, accountType, schoolName) # {}
         THEN StoreErr
    ELSE NoError

\* a catch block that throws the error on, as the listVideos of db.js does
listVideosThrown_rethrow(cause) == cause

\* listVideos: the error that leaves it; the catch block returns []
listVideosThrown(cause) == NoError

\* a listVideos call of its own; the caller sees the error thrown and the
\* list returned
ListVideos(userEmail, accountType, schoolName, classCodes, fault) ==
    LET cause == listVideosCause(objects, userEmail, accountType, schoolName, fault) IN
    /\ last' = Call("listVideos", userEmail, accountType, Blank, classCodes,
                    schoolName, fault, cause,
                    [error |-> listVideosThrown(cause),
                     videos |-> listVideos(objects, userEmail, accountType,
                                           schoolName, classCodes, fault)])
    /\ UNCHANGED <<users, objects>>
    /\ UNCHANGED <<tokens, calls>>

\* an uploadVideo call of its own
UploadVideo(videoData, fault) ==
    LET cause == uploadVideoError(videoData, fault) IN
    /\ objects' = uploadVideo(objects, videoData, fault)
    /\ last' = Call("uploadVideo", videoData.userEmail, videoData.accountType,
                    Blank, videoData.classCode, videoData.title, fault, cause,
                    uploadVideoThrown(cause))
    /\ UNCHANGED users
    /\ UNCHANGED <<tokens, calls>>

----------------------------------------------------------------------------
(* User repository *)

createUser(userData, fault) ==
    LET cause == createUserCause(users, userData, fault) IN
    /\ users' = IF cause = NoError THEN PutUser(users, userData.email, userData)
                                   ELSE users
    /\ last' = Call("createUser", userData.email, userData.accountType,
                    userData.licenseKey, Blank, Blank, fault,
                    cause, createUserThrown(cause))
    /\ UNCHANGED objects
    /\ UNCHANGED <<tokens, calls>>

\* a listUsers call of its own; the caller sees the error thrown and the
\* array returned
ListUsers(fault) ==
    /\ last' = Call("listUsers", Blank, Blank, Blank, Blank, Blank, fault,
                    listUsersError(users, fault),
                    [error |-> listUsersError(users, fault),
                     users |-> listUsersResult(users, fault)])
    /\ UNCHANGED <<users, objects>>
    /\ UNCHANGED <<tokens, calls>>

UserNotFound == "User not found"

\* readUser: the error it throws (NoError: it returns the stored user); every
\* error caught is replaced by new Error('User not found')
readUserError(u, email, fault) ==
    IF fault = "getUser" \/ ~Stored(u, email) THEN UserNotFound
    ELSE IF Malformed(u[email]) THEN UserNotFound
    ELSE NoError

\* readUser: what it returns, the stored user and the videos listVideos gives
\* for the user's e-mail, accountType, schoolName and classCodesArray
readUserResult(u, objs, email, fault) ==
    [user |-> u[email],
     videos |-> listVideos(objs, u[email].email, u[email].accountType,
                           u[email].schoolName, u[email].classCodesArray, fault)]

\* readUser without the test of the required fields
readUserCause_noValidation(u, email, fault) ==
    IF fault = "getUser" \/ ~Stored(u, email) THEN StoreErr ELSE NoError

\* readUser: the error raised inside its try block (NoError: none)
readUserCause(u, email, fault) ==
    IF fault = "getUser" \/ ~Stored(u, email) THEN StoreErr
    ELSE IF Malformed(u[email]) THEN MalformedMsg
    ELSE NoError

readUser(email, fault) ==
    LET cause == readUserCause(users, email, fault) IN
    /\ last' = Call("readUser", email, Blank, Blank, Blank, Blank, fault, cause,
                    IF cause = NoError
                    THEN readUserResult(users, objects, email, fault)
                    ELSE readUserError(users, email, fault))
    /\ UNCHANGED <<users, objects>>
    /\ UNCHANGED <<tokens, calls>>

CodeMissing == "Class code does not exist"
InvalidAction == "Invalid action. Use \"add\" or \"delete\"."

\* classCodesArray.includes(classCode)
Includes(codes, classCode) == \E i \in 1..Len(codes) : codes[i] = classCode

\* classCodesArray.filter(code => code !== classCode)
Without(codes, classCode) == SelectSeq(codes, LAMBDA c : c # classCode)

\* updateUser with a 'delete' that does not look for the code first
updateUserError_deleteUnchecked(u, email, classCode, action, fault) ==
    IF fault = "getUser" \/ ~Stored(u, email) THEN StoreErr
    ELSE IF action \in {"add", "delete"} THEN (IF fault = "put" THEN StoreErr ELSE NoError)
    ELSE InvalidAction

\* updateUser: the error it throws (NoError: it returns); rethrown as caught.
\* Fault "getUser": the record is not read, because GetObject rejects or
\* because JSON.parse of userData.Body.toString() throws
updateUserError(u, email, classCode, action, fault) ==
    IF fault = "getUser" \/ ~Stored(u, email) THEN StoreErr
    ELSE IF action = "add" THEN (IF fault = "put" THEN StoreErr ELSE NoError)
    ELSE IF action = "delete" THEN
        IF ~Includes(u[email].classCodesArray, classCode) THEN CodeMissing
        ELSE IF fault = "put" THEN StoreErr ELSE NoError
    ELSE InvalidAction

\* updateUser: the users/ namespace after the call; only the classCodesArray
\* of the record read is changed, whatever else the options object holds
updateUserStore(u, email, classCode, action, fault) ==
    LET codes == u[email].classCodesArray
        updated == IF action = "add" THEN Append(codes, classCode)
                                     ELSE Without(codes, classCode)
    IN  IF updateUserError(u, email, classCode, action, fault) = NoError
        THEN PutUser(u, email, [u[email] EXCEPT !.classCodesArray = updated])
        ELSE u

updateUser(email, classCode, action, fault) ==
    LET err == updateUserError(users, email, classCode, action, fault)
        codes == users[email].classCodesArray
    IN
    /\ (Stored(users, email) /\ action = "add") => Len(codes) < MaxCodes
    /\ users' = updateUserStore(users, email, classCode, action, fault)
    /\ last' = Call("updateUser", email, Blank, Blank, classCode, action, fault, err, err)
    /\ UNCHANGED objects
    /\ UNCHANGED <<tokens, calls>>

\* deleteUser: the user object is deleted (a DeleteObject of a key that does
\* not exist succeeds too), then every video that listVideos(email), called
\* with the e-mail alone, returns is deleted under videos/<email>/<fileId>
deleteUser(email, fault) ==
    LET videos == listVideos(objects, email, Undefined, Undefined, << >>, "none")
        err == IF fault = "deleteUser" THEN StoreErr ELSE NoError
    IN
    /\ users' = IF err = NoError THEN RemoveUser(users, email) ELSE users
    /\ objects' = IF err = NoError
                  THEN DeleteObjects(objects,
                          {Key(<<"videos", email, Undefined>>, "") : v \in videos})
                  ELSE objects
    /\ last' = Call("deleteUser", email, Blank, Blank, Blank, Blank, fault, err, err)
    /\ UNCHANGED <<tokens, calls>>

----------------------------------------------------------------------------
(* HTTP handlers *)

Redirect == "302 /upload-.html"
DuplicateVideo == "400 A video with the same title and class code already exists"
UploadFailed == "500 Failed to upload video"
FetchFailed == "500 Failed to fetch videos"
Ok == "200"

\* POST /upload: the videoData built from the stored user and the request
VideoData(user, title, classCode, up) ==
    [title |-> title, subject |-> up.subject, userId |-> user.email,
     userEmail |-> user.email, classCode |-> classCode,
     accountType |-> user.accountType, schoolName |-> user.schoolName,
     buffer |-> up.buffer, mimetype |-> "video/mp4"]

\* POST /upload: videos.find(video => video.title === title && video.classCode === classCode)
\* over listVideos(user.email)
existingVideo(objs, user, title, classCode, fault) ==
    \E v \in listVideos(objs, user.email, Undefined, Undefined, << >>, fault) :
        v.title = title /\ v.classCode = classCode

\* POST /upload with body {email, title, classCode, subject} and file up.buffer
PostUpload(email, title, classCode, up, fault) ==
    LET found == readUserError(users, email, fault) = NoError
        user == users[email]
        videoData == VideoData(user, title, classCode, up)
        dup == found /\ existingVideo(objects, user, title, classCode, fault)
        err == IF ~found THEN UserNotFound
               ELSE IF dup THEN NoError
               ELSE uploadVideoError(videoData, fault)
        response == IF ~found THEN UploadFailed
                    ELSE IF dup THEN DuplicateVideo
                    ELSE IF err # NoError THEN UploadFailed
                    ELSE Redirect
    IN
    /\ objects' = IF found /\ ~dup THEN uploadVideo(objects, videoData, fault)
                                   ELSE objects
    /\ last' = Call("upload", email, IF found THEN user.accountType ELSE Blank,
                    Blank, classCode, title, fault, err, response)
    /\ UNCHANGED users
    /\ UNCHANGED <<tokens, calls>>

\* DELETE /delete-video?id=<key>: one DeleteObject of the key given
DeleteVideo(id) ==
    /\ objects' = DeleteObjects(objects, {id})
    /\ users' = IF id.ext = "json" /\ Len(id.path) = 2 /\ id.path[1] = "users"
                THEN RemoveUser(users, id.path[2]) ELSE users
    /\ last' = Call("deleteVideo", Blank, Blank, Blank, Blank, id, "none", NoError, Ok)
    /\ UNCHANGED <<tokens, calls>>

\* GET /videos?email=: readUser, then listVideos with the stored user's
\* accountType, schoolName and classCodesArray
GetVideos(email, fault) ==
    LET err == readUserError(users, email, fault) IN
    /\ last' = Call("videos", email,
                    IF err = NoError THEN users[email].accountType ELSE Blank,
                    Blank, Blank, Blank, fault, err,
                    IF err = NoError THEN Ok ELSE FetchFailed)
    /\ UNCHANGED <<users, objects>>
    /\ UNCHANGED <<tokens, calls>>

IdRequired == "400 Video ID is required"
ViewFailed == "500 Failed to mark video as viewed"

\* a mark-viewed handler that rewrites the metadata record with viewed: true
markViewed_setsFlag(objs, videoId) ==
    IF videoId \in DOMAIN objs /\ videoId.ext = "json"
    THEN [objs EXCEPT ![videoId] = [objs[videoId] EXCEPT !.viewed = TRUE]]
    ELSE objs

\* POST /videos/view: the bucket after the request.  The handler takes
\* CopyObjectCommand from ./awsS3, which does not export it, so building the
\* command raises a TypeError before any request is sent; the copy it
\* describes would replace the object's S3 metadata, not its JSON body
markViewed(objs, videoId) == objs

\* POST /videos/view with the request body `body`
MarkViewed(body) ==
    /\ objects' = IF "id" \in DOMAIN body THEN markViewed(objects, body.id)
                                           ELSE objects
    /\ last' = Call("view", Blank, Blank, Blank, Blank,
                    IF "id" \in DOMAIN body THEN body.id ELSE Blank,
                    "none", NoError,
                    IF "id" \in DOMAIN body THEN ViewFailed ELSE IdRequired)
    /\ UNCHANGED <<users, tokens, calls>>

----------------------------------------------------------------------------
(* Overlapping createUser calls *)

(* A createUser call is a sequence of store calls, with an await at each; *)
(* between two of them another call's store calls can take place.  A      *)
(* process runs one call: getExisting, list, fetch, put, done.             *)

Procs == {1, 2}

\* a process with no createUser call in flight
Idle == [pc |-> "idle"]

\* a call at position pc: its argument, the keys its ListObjectsV2 returned
\* and the licenseKeyCount it computed (-1 before the count)
InFlight(pc, userData, listed, counted) ==
    [pc |-> pc, userData |-> userData, listed |-> listed, counted |-> counted]

\* a call that has ended: what was raised inside it and what its caller got
Ended(call, cause) ==
    [pc |-> "done", userData |-> call.userData, counted |-> call.counted,
     cause |-> cause, thrown |-> createUserThrown(cause)]

\* the end of process p's call
Finish(p, call, cause) ==
    /\ calls' = [calls EXCEPT ![p] = Ended(call, cause)]
    /\ last' = Call("createUser", call.userData.email, call.userData.accountType,
                    call.userData.licenseKey, Blank, Blank, "none",
                    cause, createUserThrown(cause))

\* process p is called with userData
Begin(p, userData) ==
    /\ calls[p].pc = "idle"
    /\ calls' = [calls EXCEPT ![p] = InFlight("getExisting", userData, {}, -1)]
    /\ UNCHANGED <<users, objects, last, tokens>>

\* the GetObject of users/<email>.json, then the test of the key against the
\* account type
GetExisting(p) ==
    LET call == calls[p]
        userData == call.userData
        cause == IF existingUser(users, userData.email, "none") THEN EmailInUse
                 ELSE IF userData.accountType \notin DOMAIN validLicenseKeys THEN TypeErr
                 ELSE IF ~KeyAllowed(userData.accountType, userData.licenseKey)
                      THEN InvalidKey
                 ELSE NoError
    IN
    /\ call.pc = "getExisting"
    /\ IF cause = NoError
       THEN /\ calls' = [calls EXCEPT ![p] = InFlight("list", userData, {}, -1)]
            /\ UNCHANGED last
       ELSE Finish(p, call, cause)
    /\ UNCHANGED <<users, objects, tokens>>

\* listUsers: the ListObjectsV2 of users/
ListKeys(p) ==
    /\ calls[p].pc = "list"
    /\ calls' = [calls EXCEPT ![p] =
                    InFlight("fetch", calls[p].userData, DOMAIN users, -1)]
    /\ UNCHANGED <<users, objects, last, tokens>>

\* listUsers: the GetObject of every listed key, then the count of the users
\* that hold the key and the test against the limit
FetchListed(p) ==
    LET call == calls[p]
        k == call.userData.licenseKey
        fetched == [e \in call.listed |-> users[e]]
        count == licenseKeyCount(fetched, k)
        cause == IF ~(call.listed \subseteq DOMAIN users) THEN StoreErr
                 ELSE IF listUsersError(fetched, "none") # NoError
                      THEN listUsersError(fetched, "none")
                 ELSE IF LimitReached(count, limitFor(k)) THEN LimitMsg
                 ELSE NoError
    IN
    /\ call.pc = "fetch"
    /\ IF cause = NoError
       THEN /\ calls' = [calls EXCEPT ![p] =
                            InFlight("put", call.userData, call.listed, count)]
            /\ UNCHANGED last
       ELSE Finish(p, call, cause)
    /\ UNCHANGED <<users, objects, tokens>>

\* a put that counts the key's users again and writes only below the limit
storeUser_recount(u, userData) ==
    IF LimitReached(licenseKeyCount(u, userData.licenseKey),
                    limitFor(userData.licenseKey))
    THEN u
    ELSE PutUser(u, userData.email, userData)

\* a put that writes only where no record is stored
storeUser_ifAbsent(u, userData) ==
    IF Stored(u, userData.email) THEN u ELSE PutUser(u, userData.email, userData)

\* the PutObject of users/<email>.json, sent whatever the bucket holds by now
storeUser(u, userData) == PutUser(u, userData.email, userData)

PutRecord(p) ==
    /\ calls[p].pc = "put"
    /\ users' = storeUser(users, calls[p].userData)
    /\ Finish(p, calls[p], NoError)
    /\ UNCHANGED <<objects, tokens>>

----------------------------------------------------------------------------
(* Overlapping updateUser calls: the GetObject of the record, the change   *)
(* of the parsed record in memory, and the PutObject of the whole record.  *)

\* an updateUser call at position pc: its arguments, the record it read and
\* the record it is about to put (Blank before the read)
Updating(pc, email, classCode, action, read, user) ==
    [pc |-> pc, email |-> email, classCode |-> classCode, action |-> action,
     read |-> read, user |-> user]

\* an updateUser call that has ended with err (NoError: it returned)
Updated(call, err) ==
    [pc |-> "done", email |-> call.email, classCode |-> call.classCode,
     action |-> call.action, read |-> call.read, user |-> call.user,
     thrown |-> err]

\* the end of process p's updateUser call
UpdateFinish(p, call, err) ==
    /\ calls' = [calls EXCEPT ![p] = Updated(call, err)]
    /\ last' = Call("updateUser", call.email, Blank, Blank, call.classCode,
                    call.action, "none", err, err)

\* process p is called with (email, {classCode}, action)
UpdateBegin(p, email, classCode, action) ==
    /\ calls[p].pc = "idle"
    /\ calls' = [calls EXCEPT ![p] =
                    Updating("read", email, classCode, action, Blank, Blank)]
    /\ UNCHANGED <<users, objects, last, tokens>>

\* the GetObject of users/<email>.json and the change made to the parsed
\* record; an error thrown here ends the call before any put
UpdateRead(p) ==
    LET call == calls[p]
        err == updateUserError(users, call.email, call.classCode, call.action, "none")
        changed == updateUserStore(users, call.email, call.classCode,
                                   call.action, "none")[call.email]
    IN
    /\ call.pc = "read"
    /\ (Stored(users, call.email) /\ call.action = "add") =>
            Len(users[call.email].classCodesArray) < MaxCodes
    /\ IF err = NoError
       THEN /\ calls' = [calls EXCEPT ![p] =
                            Updating("put", call.email, call.classCode, call.action,
                                     users[call.email], changed)]
            /\ UNCHANGED last
       ELSE UpdateFinish(p, call, err)
    /\ UNCHANGED <<users, objects, tokens>>

\* a put that reads the stored class codes again and applies the change to them
writeBack_merge(u, call) ==
    IF Stored(u, call.email)
    THEN PutUser(u, call.email,
                 [call.user EXCEPT !.classCodesArray =
                     IF call.action = "add"
                     THEN Append(u[call.email].classCodesArray, call.classCode)
                     ELSE Without(u[call.email].classCodesArray, call.classCode)])
    ELSE u

\* the PutObject of the whole changed record under users/<email>.json
writeBack(u, call) == PutUser(u, call.email, call.user)

UpdateWrite(p) ==
    /\ calls[p].pc = "put"
    /\ users' = writeBack(users, calls[p])
    /\ UpdateFinish(p, calls[p], NoError)
    /\ UNCHANGED <<objects, tokens>>

----------------------------------------------------------------------------
(* A listVideos call that overlaps other requests: the ListObjectsV2 of    *)
(* the prefix, then the GetObject, filter and HeadObjects of each listed   *)
(* metadata object.                                                        *)

\* a listVideos call at position pc: its arguments and the keys listed
Listing(pc, userEmail, accountType, schoolName, classCodes, listed) ==
    [pc |-> pc, userEmail |-> userEmail, accountType |-> accountType,
     schoolName |-> schoolName, classCodes |-> classCodes, listed |-> listed]

\* listVideos after the listing: a GetObject of a listed key that is gone
\* rejects outside the inner try blocks, Promise.all rejects and the outer
\* catch returns []; otherwise the entries of the listed objects that pass
\* the filter and whose files exist
listVideosFetched(objs, listed, accountType, schoolName, classCodes) ==
    IF \E k \in listed : k \notin DOMAIN objs THEN {}
    ELSE {Entry(objs, k) : k \in
            {k \in listed :
                /\ accountType = "teacher" =>
                       TeacherFilter(objs[k], schoolName, classCodes)
                /\ FilesExist(objs, k, objs[k].videoPath)}}

\* process p is called with (userEmail, accountType, schoolName, classCodes)
ListingBegin(p, userEmail, accountType, schoolName, classCodes) ==
    /\ calls[p].pc = "idle"
    /\ calls' = [calls EXCEPT ![p] =
                    Listing("listObjects", userEmail, accountType, schoolName,
                            classCodes, {})]
    /\ UNCHANGED <<users, objects, last, tokens>>

\* the ListObjectsV2 of the prefix
ListObjects(p) ==
    LET call == calls[p] IN
    /\ call.pc = "listObjects"
    /\ calls' = [calls EXCEPT ![p] =
                    Listing("getObjects", call.userEmail, call.accountType,
                            call.schoolName, call.classCodes,
                            Listed(objects, call.userEmail, call.accountType,
                                   call.schoolName))]
    /\ UNCHANGED <<users, objects, last, tokens>>

\* the rest of the call; the process holds what listVideos returned
GetObjects(p) ==
    LET call == calls[p]
        videos == listVideosFetched(objects, call.listed, call.accountType,
                                    call.schoolName, call.classCodes)
    IN
    /\ call.pc = "getObjects"
    /\ calls' = [calls EXCEPT ![p] =
                    [pc |-> "done", userEmail |-> call.userEmail,
                     accountType |-> call.accountType, listed |-> call.listed,
                     videos |-> videos]]
    /\ UNCHANGED <<users, objects, last, tokens>>

----------------------------------------------------------------------------
(* Password reset.  The token functions are those of the e-mail service:   *)
(* a token is stored with the e-mail it was made for, validated to that    *)
(* e-mail, and deleted.                                                     *)

\* bcrypt.hash(password, 10): a value made from the password, not the password
Hash(password) == <<"bcrypt", password>>

\* the user object POST /register stores: the fields and the password hash
Registered(userData, password) ==
    [f \in (DOMAIN userData) \cup {"password"} |->
        IF f = "password" THEN Hash(password) ELSE userData[f]]

storeResetToken(toks, email, token) ==
    [t \in (DOMAIN toks) \cup {token} |-> IF t = token THEN email ELSE toks[t]]

\* the e-mail of a stored token, nothing for any other token
validateResetToken(toks, token) ==
    IF token \in DOMAIN toks THEN toks[token] ELSE Undefined

deleteResetToken(toks, token) == [t \in (DOMAIN toks) \ {token} |-> toks[t]]

ResetSent == "200 If your email exists in our system, you will receive a password reset link."
ResetError == "500 An error occurred. Please try again later."
ResetDone == "200 Your password has been reset successfully."
ResetInvalid == "400 This password reset link has expired or is invalid."
ResetFailed == "500 An error occurred while resetting your password."

\* POST /api/forgot-password with body {email}; `token` is the token
\* generateResetToken makes.  Fault "send": sendPasswordResetEmail rejects
ForgotPassword(email, token, fault) ==
    LET err == readUserError(users, email, fault) IN
    /\ tokens' = IF err = NoError THEN storeResetToken(tokens, email, token)
                                  ELSE tokens
    /\ last' = Call("forgotPassword", email, Blank, token, Blank, Blank, fault, err,
                    IF err # NoError \/ fault = "send" THEN ResetError ELSE ResetSent)
    /\ UNCHANGED <<users, objects, calls>>

\* POST /api/reset-password with body {token, newPassword}: the handler calls
\* updateUser(email, { password: hashedPassword }), that is with no classCode
\* and no action, and deletes the token when updateUser has returned
ResetPassword(token, newPassword, fault) ==
    LET email == validateResetToken(tokens, token)
        valid == email # Undefined
        err == IF valid THEN updateUserError(users, email, Undefined, Undefined, fault)
                        ELSE NoError
    IN
    /\ users' = IF valid THEN updateUserStore(users, email, Undefined, Undefined, fault)
                          ELSE users
    /\ tokens' = IF valid /\ err = NoError THEN deleteResetToken(tokens, token)
                                            ELSE tokens
    /\ last' = Call("resetPassword", IF valid THEN email ELSE Blank, Blank, token,
                    Blank, newPassword, fault, err,
                    IF ~valid THEN ResetInvalid
                    ELSE IF err = NoError THEN ResetDone ELSE ResetFailed)
    /\ UNCHANGED <<objects, calls>>

----------------------------------------------------------------------------
(* Specifications *)

Init ==
    /\ users = << >>
    /\ objects = << >>
    /\ last = Call("init", Blank, Blank, Blank, Blank, Blank, "none", NoError, NoError)
    /\ tokens = << >>
    /\ calls = [p \in Procs |-> Idle]

\* registration and account removal, called with every kind of argument
Next ==
    \/ \E e \in Emails, fn \in FirstNames, t \in AccountTypes, k \in LicenseKeys,
          f \in {"none", "getExisting", "list", "getItem", "put"} :
            createUser(UserData(e, fn, t, k, "Burnside", << >>), f)
    \/ \E e \in Emails, f \in {"none", "deleteUser"} : deleteUser(e, f)

Spec == Init /\ [][Next]_vars

\* the license limit: more users of one key than the key has seats, and the
\* class codes of one of them
NextLimit ==
    \/ \E e \in LimitEmails : 
            createUser(UserData(e, "Ann", "student", "STUDENT_KEY_1", "Burnside", << >>),
                       "none")
    \/ \E a \in {"add", "delete"} : updateUser(EmailPool[1], "7A", a, "none")
    \/ \E e \in LimitEmails : deleteUser(e, "none")

SpecLimit == Init /\ [][NextLimit]_vars

VideoEmails == {"a@x", "t@x"}

\* the registration of each user of the video specification
Profile(e, codes) ==
    IF e = "t@x" THEN UserData(e, "Tom", "teacher", "TEACHER_KEY_2", "Burnside", codes)
                 ELSE UserData(e, "Ann", "student", "STUDENT_KEY_1", "Burnside", <<"7A">>)

Titles == {"Lab1"}

\* class codes a client sends; the second is also a user's e-mail address
ClassCodes == {"7A", "a@x"}

Uploads == {[subject |-> "Bio", buffer |-> "bytes1"],
            [subject |-> "Chem", buffer |-> "bytes2"]}

NextVideo ==
    \/ \E e \in VideoEmails, codes \in {<< >>, <<"7A">>} :
            createUser(Profile(e, codes), "none")
    \/ \E e \in VideoEmails, t \in Titles, c \in ClassCodes, up \in Uploads,
          f \in {"none", "putVideo"} :
            PostUpload(e, t, c, up, f)
    \/ \E id \in (DOMAIN objects) \cup {Key(<<"users", e>>, "json") : e \in VideoEmails} :
            DeleteVideo(id)
    \/ \E e \in VideoEmails : GetVideos(e, "none")
    \/ \E e \in VideoEmails : deleteUser(e, "none")

SpecVideo == Init /\ [][NextVideo]_vars

UserEmails == {"a@x", "b@x"}

\* class codes a client sends to updateUser
UserCodes == {"7A", "8B"}

\* account types listVideos is called with: the two it serves, one it does
\* not know, and none
ListTypes == {"student", "teacher", "admin", Undefined}

\* the user repository called with every kind of argument: records with and
\* without a firstName, class codes added and removed, reads, removals, and
\* uploads under a class code that lets the owner's listing find the video
NextUser ==
    \/ \E e \in UserEmails, fn \in FirstNames :
            createUser(UserData(e, fn, "student", "STUDENT_KEY_1", "Burnside", << >>),
                       "none")
    \/ \E x \in UserCodes, a \in UpdateActions, f \in {"none", "getUser", "put"} :
            updateUser("a@x", x, a, f)
    \/ \E e \in UserEmails, f \in {"none", "getUser", "list", "getItem"} :
            readUser(e, f)
    \/ \E f \in {"none", "list", "getItem"} : ListUsers(f)
    \/ \E e \in UserEmails, t \in ListTypes, cs \in {<< >>, <<"a@x">>},
          f \in {"none", "list", "getItem"} :
            ListVideos(e, t, "Burnside", cs, f)
    \/ \E e \in UserEmails, f \in {"none", "deleteUser"} : deleteUser(e, f)
    \/ \E e \in UserEmails, f \in {"none", "putVideo"} :
            PostUpload(e, "Lab1", e, [subject |-> "Bio", buffer |-> "bytes1"], f)
    \/ \E e \in UserEmails, f \in {"none", "putMeta", "putVideo"} :
            UploadVideo(VideoData(UserData(e, "Ann", "student", "STUDENT_KEY_1",
                                           "Burnside", << >>),
                                  "Lab1", e, [subject |-> "Bio", buffer |-> "bytes1"]),
                        f)

SpecUser == Init /\ [][NextUser]_vars

Passwords == {"pw1", "pw2"}
Tokens == {"tok1", "tok2"}

\* password reset: users registered with a password hash, reset links asked
\* for and used, class codes changed and accounts removed in between
NextReset ==
    \/ \E e \in UserEmails, pw \in Passwords :
            createUser(Registered(UserData(e, "Ann", "student", "STUDENT_KEY_1",
                                           "Burnside", << >>), pw), "none")
    \/ \E e \in UserEmails, t \in Tokens, f \in {"none", "getUser", "send"} :
            ForgotPassword(e, t, f)
    \/ \E t \in Tokens, pw \in Passwords, f \in {"none", "getUser"} :
            ResetPassword(t, pw, f)
    \/ \E a \in {"add", "delete"} : updateUser("a@x", "7A", a, "none")
    \/ \E e \in UserEmails : deleteUser(e, "none")

SpecReset == Init /\ [][NextReset]_vars

RaceEmails == {"r1@x", "r2@x"}

\* first names that tell the data of two calls for one e-mail apart
RaceNames == {"Ann", "Bob"}

\* the users of the license-limit specification registered so far
Seated == {i \in 1..MaxLimitUsers : Stored(users, EmailPool[i])}

\* overlapping registrations: the users of one key register one after the
\* other, in the order of the pool, while two more registrations with the
\* same key run store call by store call
NextRace ==
    \/ \E i \in 1..MaxLimitUsers :
            /\ i = Cardinality(Seated) + 1
            /\ createUser(UserData(EmailPool[i], "Ann", "student", "STUDENT_KEY_1",
                                   "Burnside", << >>), "none")
    \/ \E p \in Procs, e \in RaceEmails, fn \in RaceNames :
            Begin(p, UserData(e, fn, "student", "STUDENT_KEY_1", "Burnside", << >>))
    \/ \E p \in Procs : GetExisting(p)
    \/ \E p \in Procs : ListKeys(p)
    \/ \E p \in Procs : FetchListed(p)
    \/ \E p \in Procs : PutRecord(p)

SpecRace == Init /\ [][NextRace]_vars

\* overlapping class-code updates of one user, with the user's registration
\* and removal in between
NextOverlap ==
    \/ createUser(UserData("a@x", "Ann", "student", "STUDENT_KEY_1", "Burnside", << >>),
                  "none")
    \/ \E p \in Procs, x \in UserCodes, a \in {"add", "delete"} :
            UpdateBegin(p, "a@x", x, a)
    \/ \E p \in Procs : UpdateRead(p)
    \/ \E p \in Procs : UpdateWrite(p)
    \/ deleteUser("a@x", "none")

SpecOverlap == Init /\ [][NextOverlap]_vars

\* listings that overlap uploads and deletions of videos: a student uploads
\* one title under two class codes, any object is deleted, and a teacher and
\* the student list store call by store call
NextListing ==
    \/ \E c \in ClassCodes, f \in {"none", "putVideo"} :
            UploadVideo(VideoData(UserData("a@x", "Ann", "student", "STUDENT_KEY_1",
                                           "Burnside", << >>),
                                  "Lab1", c, [subject |-> "Bio", buffer |-> "bytes1"]),
                        f)
    \/ \E id \in DOMAIN objects : DeleteVideo(id)
    \/ \E p \in Procs :
            \/ ListingBegin(p, "t@x", "teacher", "Burnside", <<"7A", "a@x">>)
            \/ ListingBegin(p, "a@x", "student", "Burnside", << >>)
    \/ \E p \in Procs : ListObjects(p)
    \/ \E p \in Procs : GetObjects(p)

SpecListing == Init /\ [][NextListing]_vars

UploadEmails == {"a@x", "b@x", "t@x"}

\* the user an upload is made for: two students and a teacher of one school
Uploader(e) ==
    IF e = "t@x" THEN UserData(e, "Tom", "teacher", "TEACHER_KEY_2", "Burnside", << >>)
                 ELSE UserData(e, "Ann", "student", "STUDENT_KEY_1", "Burnside", << >>)

\* uploads by students and a teacher under class codes of the client's
\* choice, videos marked as viewed and deleted
NextUpload ==
    \/ \E e \in UploadEmails, c \in ClassCodes, f \in {"none", "putVideo"} :
            UploadVideo(VideoData(Uploader(e), "Lab1", c,
                                  [subject |-> "Bio", buffer |-> "bytes1"]), f)
    \/ \E k \in DOMAIN objects : MarkViewed([id |-> k])
    \/ MarkViewed([title |-> "Lab1"])
    \/ \E id \in DOMAIN objects : DeleteVideo(id)

SpecUpload == Init /\ [][NextUpload]_vars

----------------------------------------------------------------------------
(* Properties of registration *)

\* the configured limit of a key: its entry in the limit table, 0 without one
ConfiguredLimit(k) ==
    IF k \in DOMAIN licenseKeyLimits THEN licenseKeyLimits[k] ELSE 0

\* C1: a createUser call succeeds only if, before it, no record is stored under
\* its e-mail, its key is allowed for its account type and fewer users hold the
\* key than its configured limit; a call that fails writes nothing.
C1_CreateUserPreconditions ==
    [][last'.op = "createUser" =>
        LET e == last'.email
            t == last'.accountType
            k == last'.licenseKey
        IN  /\ last'.thrown = NoError =>
                /\ ~Stored(users, e)
                /\ t \in DOMAIN validLicenseKeys
                /\ k \in validLicenseKeys[t]
                /\ licenseKeyCount(users, k) < ConfiguredLimit(k)
            /\ last'.thrown # NoError => (users' = users /\ objects' = objects)]_vars

\* C1 with the existence read working: the same statement about the calls whose
\* GetObject of users/<email>.json does not fail.
CreateUserPreconditions_readWorks ==
    [][(last'.op = "createUser" /\ last'.fault # "getExisting") =>
        LET e == last'.email
            t == last'.accountType
            k == last'.licenseKey
        IN  /\ last'.thrown = NoError =>
                /\ ~Stored(users, e)
                /\ t \in DOMAIN validLicenseKeys
                /\ k \in validLicenseKeys[t]
                /\ licenseKeyCount(users, k) < ConfiguredLimit(k)
            /\ last'.thrown # NoError => (users' = users /\ objects' = objects)]_vars

\* C2: in every state reached by non-overlapping createUser, updateUser and
\* deleteUser calls, no license key is held by more stored users than its
\* configured limit (0 for a key without an entry in the limit table).
C2_CountWithinLimit ==
    \A k \in LicenseKeys \cup DOMAIN licenseKeyLimits :
        licenseKeyCount(users, k) <= ConfiguredLimit(k)

\* a key's seats are all taken and one more registration with it was refused
C2_Witness ==
    /\ licenseKeyCount(users, "STUDENT_KEY_1") = licenseKeyLimits["STUDENT_KEY_1"]
    /\ last.op = "createUser"
    /\ last.licenseKey = "STUDENT_KEY_1"
    /\ last.cause = LimitMsg
    /\ \E e \in DOMAIN users : Len(users[e].classCodesArray) > 0

\* C3: a createUser call for an e-mail that already has a stored record fails
\* and leaves the store, and so the first user's record, unchanged.
C3_DuplicateEmailRejected ==
    [][(last'.op = "createUser" /\ Stored(users, last'.email)) =>
        (last'.thrown # NoError /\ users' = users)]_vars

\* C4: createUser reports a taken e-mail, a key not allowed for the account
\* type and a reached limit to its caller as three different error kinds, and
\* the generic failure only for unexpected storage errors.
C4_DistinctErrorKinds ==
    last.op = "createUser" =>
        /\ last.cause \in {EmailInUse, InvalidKey, LimitMsg} => last.thrown = last.cause
        /\ last.thrown = RegisterFailed => last.cause = StoreErr

\* C5: a registration with key "3399" for an e-mail without a record, with a
\* student or teacher account type and a working store, is accepted while
\* fewer than 20 users hold the key, and is refused because the limit is
\* reached once 20 do.
C5_Key3399AcceptedUpToLimit ==
    [][(/\ last'.op = "createUser"
        /\ last'.licenseKey = "3399"
        /\ last'.accountType \in {"student", "teacher"}
        /\ last'.fault = "none"
        /\ ~Stored(users, last'.email)
        /\ \A e \in DOMAIN users : ~Malformed(users[e])) =>
            IF licenseKeyCount(users, "3399") < ConfiguredLimit("3399")
            THEN last'.thrown = NoError /\ Stored(users', last'.email)
            ELSE last'.cause = LimitMsg]_vars

\* C6: no createUser call with a key that has no entry in the limit table
\* succeeds, whatever the store holds; no stored user holds such a key.
C6_UnlimitedKeyRejected ==
    /\ (last.op = "createUser" /\ last.licenseKey \notin DOMAIN licenseKeyLimits) =>
            last.thrown # NoError
    /\ \A e \in DOMAIN users : users[e].licenseKey \in DOMAIN licenseKeyLimits

\* a key allowed for the account type but without a limit was refused at the
\* limit test
C6_Witness ==
    /\ last.op = "createUser"
    /\ last.fault = "none"
    /\ last.accountType = "student"
    /\ last.licenseKey = "STUDENT_KEY_2"
    /\ last.cause = LimitMsg
    /\ ~Stored(users, last.email)

----------------------------------------------------------------------------
(* Properties of the video listing and of upload *)

\* argument values of the listVideos calls the properties range over
ListSchools == {"Burnside", "STAC"}
ListCodes == {<< >>, <<"7A">>, <<"a@x">>, <<"7A", "a@x">>}

\* C7: every entry listVideos returns, to a student or a teacher, comes from a
\* stored metadata object whose videoPath names a stored payload object.
C7_ListedHavePayload ==
    \A e \in VideoEmails, t \in {"student", "teacher"}, sc \in ListSchools,
       cs \in ListCodes :
        \A v \in listVideos(objects, e, t, sc, cs, "none") :
            /\ v.metadataKey \in DOMAIN objects
            /\ objects[v.metadataKey].videoPath = v.videoKey
            /\ v.videoKey \in DOMAIN objects

\* GET /videos was served while the caller's listing held a metadata object
\* that passed the caller's filter and whose payload was gone
C7_Witness ==
    /\ last.op = "videos"
    /\ last.thrown = Ok
    /\ LET u == users[last.email] IN
        \E k \in Listed(objects, u.email, u.accountType, u.schoolName) :
            /\ u.accountType = "teacher" =>
                   TeacherFilter(objects[k], u.schoolName, u.classCodesArray)
            /\ objects[k].videoPath \notin DOMAIN objects

\* C8: every entry listVideos returns to a teacher has the caller's schoolName
\* and a classCode among the caller's classCodes; with no classCodes it returns
\* nothing.
C8_TeacherScope ==
    \A e \in VideoEmails, sc \in ListSchools, cs \in ListCodes :
        /\ \A v \in listVideos(objects, e, "teacher", sc, cs, "none") :
                v.schoolName = sc /\ Includes(cs, v.classCode)
        /\ listVideos(objects, e, "teacher", sc, << >>, "none") = {}

\* GET /videos was served to a teacher who got a video of one of their class
\* codes while the school held a fully written video of another class code
C8_Witness ==
    /\ last.op = "videos"
    /\ last.thrown = Ok
    /\ last.accountType = "teacher"
    /\ LET u == users[last.email] IN
        /\ listVideos(objects, u.email, "teacher", u.schoolName,
                      u.classCodesArray, "none") # {}
        /\ \E k \in Listed(objects, u.email, "teacher", u.schoolName) :
            /\ ~Includes(u.classCodesArray, objects[k].classCode)
            /\ objects[k].videoPath \in DOMAIN objects

\* C9: after an upload by a student has completed, listVideos called with that
\* student's email, 'student', schoolName and classCodes returns the video.
C9_UploadedIsListable ==
    (last.op = "upload" /\ last.thrown = Redirect /\ last.accountType = "student") =>
        LET u == users[last.email] IN
        \E v \in listVideos(objects, u.email, "student", u.schoolName,
                            u.classCodesArray, "none") :
            v.title = last.title /\ v.classCode = last.classCode /\ v.userEmail = u.email

\* the user has a video with this title and class code, metadata and payload
\* both stored
HasVideo(objs, email, title, classCode) ==
    \E k \in DOMAIN objs :
        /\ k.ext = "json"
        /\ objs[k].userEmail = email
        /\ objs[k].title = title
        /\ objs[k].classCode = classCode
        /\ objs[k].videoPath \in DOMAIN objs

\* C10: an upload request for a title and classCode of which the user already
\* has a fully written video is rejected and writes no object.
C10_DuplicateUploadRejected ==
    [][(/\ last'.op = "upload"
        /\ last'.fault = "none"
        /\ readUserError(users, last'.email, "none") = NoError
        /\ HasVideo(objects, last'.email, last'.title, last'.classCode)) =>
            (last'.thrown = DuplicateVideo /\ objects' = objects)]_vars

----------------------------------------------------------------------------
(* Properties of the user repository *)

\* the object under key k belongs to a video uploaded by email: a metadata
\* record with that userEmail, or the payload such a record names, or a
\* payload stored under uploadVideo's key layout for that e-mail
VideoOf(objs, k, email) ==
    \/ k.ext = "json" /\ objs[k].userEmail = email
    \/ /\ k.ext = "mp4"
       /\ \/ \E j \in DOMAIN objs :
                j.ext = "json" /\ objs[j].userEmail = email /\ objs[j].videoPath = k
          \/ Len(k.path) = 5 /\ k.path[4] = email

\* C11: after a deleteUser call that returned, the store holds no record under
\* the e-mail and no metadata or payload object of a video uploaded by it.
C11_DeleteUserRemovesVideos ==
    (last.op = "deleteUser" /\ last.thrown = NoError) =>
        /\ ~Stored(users, last.email)
        /\ \A k \in DOMAIN objects : ~VideoOf(objects, k, last.email)

\* a record with its required fields is stored under the e-mail
WellFormedStored(u, email) == Stored(u, email) /\ ~Malformed(u[email])

\* C12: a readUser call fails with 'User not found' whenever no well-formed
\* record is stored under its e-mail, whatever the store does, and so at any
\* time between a deleteUser of the e-mail and its next registration; when a
\* well-formed record is stored and the read of it succeeds, the call returns
\* that record together with what listVideos gives for the record's e-mail,
\* accountType, schoolName and classCodesArray.
C12_ReadUserNotFound ==
    last.op = "readUser" =>
        /\ ~WellFormedStored(users, last.email) =>
                (last.cause # NoError /\ last.thrown = UserNotFound)
        /\ (WellFormedStored(users, last.email) /\ last.fault # "getUser") =>
                /\ last.cause = NoError
                /\ last.thrown.user = users[last.email]
                /\ last.thrown.videos =
                      LET u == users[last.email] IN
                      listVideos(objects, u.email, u.accountType, u.schoolName,
                                 u.classCodesArray, last.fault)

\* readUser was refused for an e-mail whose record is gone while a video it
\* uploaded is still stored
C12_Witness ==
    /\ last.op = "readUser"
    /\ last.fault = "none"
    /\ last.cause # NoError
    /\ last.thrown = UserNotFound
    /\ ~Stored(users, last.email)
    /\ \E k \in DOMAIN objects : VideoOf(objects, k, last.email)

\* C13: an updateUser 'add' of a class code followed directly by an updateUser
\* 'delete' of the same code for the same user, both returning, leaves the
\* stored classCodesArray as it was before the add, which appended the code:
\* the array after the add without its last element.
C13_AddDeleteRoundTrip ==
    [][(/\ last.op = "updateUser" /\ last.title = "add" /\ last.cause = NoError
        /\ last'.op = "updateUser" /\ last'.title = "delete" /\ last'.cause = NoError
        /\ last'.email = last.email
        /\ last'.classCode = last.classCode) =>
            LET afterAdd == users[last.email].classCodesArray IN
            users'[last.email].classCodesArray = SubSeq(afterAdd, 1, Len(afterAdd) - 1)]_vars

\* C14: an updateUser 'delete' of a class code that the stored user's
\* classCodesArray does not contain fails and writes nothing, with 'Class code
\* does not exist' when the record was read; an updateUser with an action
\* other than 'add' and 'delete' fails and writes nothing.
C14_DeleteAbsentCodeFails ==
    [][last'.op = "updateUser" =>
        /\ (/\ last'.title = "delete"
            /\ Stored(users, last'.email)
            /\ ~Includes(users[last'.email].classCodesArray, last'.classCode)) =>
                /\ last'.thrown # NoError
                /\ last'.fault # "getUser" => last'.thrown = CodeMissing
                /\ users' = users /\ objects' = objects
        /\ last'.title \notin {"add", "delete"} =>
                /\ last'.thrown # NoError
                /\ users' = users /\ objects' = objects]_vars

\* a delete of a code was refused for a stored user who has another code
C14_Witness ==
    /\ last.op = "updateUser"
    /\ last.title = "delete"
    /\ last.fault = "none"
    /\ last.thrown = CodeMissing
    /\ Stored(users, last.email)
    /\ Len(users[last.email].classCodesArray) > 0
    /\ ~Includes(users[last.email].classCodesArray, last.classCode)

\* C15: no listVideos call throws, whatever its arguments and whichever store
\* call fails; it returns a list, and the list is empty when the listing of
\* the prefix fails or the accountType is neither 'student' nor 'teacher'.
C15_ListVideosNeverThrows ==
    last.op = "listVideos" =>
        /\ last.thrown.error = NoError
        /\ (last.fault = "list" \/ last.accountType \notin {"student", "teacher"}) =>
                last.thrown.videos = {}

\* the listing of the prefix failed in a call that returns a video when the
\* store works
C15_Witness ==
    /\ last.op = "listVideos"
    /\ last.fault = "list"
    /\ last.cause = StoreErr
    /\ last.thrown.videos = {}
    /\ listVideos(objects, last.email, last.accountType, last.title,
                  last.classCode, "none") # {}

\* C16: while a stored record lacks email, firstName or accountType, every
\* listUsers call fails and returns no list, and every createUser call that
\* gets to the license count fails and writes nothing; while every stored
\* record has the three fields, a listUsers call whose store calls succeed
\* returns the stored records, one entry for each.
C16_ListUsersStrict ==
    [][/\ last'.op = "listUsers" =>
            IF \E e \in DOMAIN users : Malformed(users[e])
            THEN last'.thrown.error # NoError /\ last'.thrown.users = {}
            ELSE last'.fault = "none" =>
                    /\ last'.thrown.error = NoError
                    /\ last'.thrown.users = {users[e] : e \in DOMAIN users}
                    /\ Cardinality(last'.thrown.users) = Cardinality(DOMAIN users)
       /\ (/\ last'.op = "createUser"
           /\ \E e \in DOMAIN users : Malformed(users[e])
           /\ last'.cause \notin {EmailInUse, TypeErr, InvalidKey}) =>
                /\ last'.cause = MalformedMsg
                /\ last'.thrown # NoError
                /\ users' = users]_vars

\* a registration of a new e-mail with a valid key was refused because of
\* another user's record without a firstName
C16_Witness ==
    /\ last.op = "createUser"
    /\ last.fault = "none"
    /\ last.cause = MalformedMsg
    /\ ~Stored(users, last.email)
    /\ \E e \in DOMAIN users : users[e].firstName = ""

\* C17: a deleteUser call for an e-mail without a stored record throws, and a
\* deleteUser call returns only when a record was stored under its e-mail and
\* is removed by it.
C17_DeleteUnknownUserThrows ==
    [][last'.op = "deleteUser" =>
        /\ ~Stored(users, last'.email) => last'.thrown # NoError
        /\ last'.thrown = NoError =>
                (Stored(users, last'.email) /\ ~Stored(users', last'.email))]_vars

----------------------------------------------------------------------------
(* Properties of uploadVideo *)

\* the metadata key of the most recent uploadVideo call in the state after it
UploadedKey(call) ==
    Key(videoPath([accountType |-> call.accountType, schoolName |-> "Burnside",
                   classCode |-> call.classCode, userEmail |-> call.email,
                   title |-> call.title]), "json")

\* C18: when the put of the payload fails in an uploadVideo call, the metadata
\* object the call has written stays stored, no payload is written, the call
\* throws 'Failed to upload video: ' followed by the cause's message, and,
\* where no payload was stored under the key before, no listVideos call
\* returns an entry for that metadata object.
C18_UploadNotTransactional ==
    [][(last'.op = "uploadVideo" /\ last'.fault = "putVideo") =>
        LET mk == UploadedKey(last')
            pk == Key(mk.path, "mp4")
        IN  /\ mk \in DOMAIN objects'
            /\ objects'[mk].title = last'.title
            /\ objects'[mk].videoPath = pk
            /\ objects' = PutObject(objects, mk, objects'[mk])
            /\ last'.cause # NoError
            /\ last'.thrown = <<"Failed to upload video: ", last'.cause>>
            /\ pk \notin DOMAIN objects =>
                  \A e \in UserEmails, t \in {"student", "teacher"},
                     cs \in {<< >>, <<"a@x">>, <<"a@x", "b@x">>} :
                      \A v \in listVideos(objects', e, t, "Burnside", cs, "none") :
                          v.metadataKey # mk]_vars

\* the put of the payload failed and the call left a metadata object that
\* names a payload the bucket does not hold
C18_Witness ==
    /\ last.op = "uploadVideo"
    /\ last.fault = "putVideo"
    /\ UploadedKey(last) \in DOMAIN objects
    /\ objects[UploadedKey(last)].videoPath \notin DOMAIN objects

----------------------------------------------------------------------------
(* Properties of password reset *)

\* C19: a reset-password request with a valid token of a stored user, the
\* store working, sets the password of the user's record to the hash of the
\* new password, leaves the record's other fields as they were, and deletes
\* the token.
C19_ResetReplacesPassword ==
    [][(/\ last'.op = "resetPassword"
        /\ last'.fault = "none"
        /\ last'.licenseKey \in DOMAIN tokens
        /\ Stored(users, tokens[last'.licenseKey])) =>
            LET email == tokens[last'.licenseKey] IN
            /\ Stored(users', email)
            /\ users'[email].password = Hash(last'.title)
            /\ \A f \in (DOMAIN users[email]) \ {"password"} :
                    users'[email][f] = users[email][f]
            /\ last'.licenseKey \notin DOMAIN tokens']_vars

----------------------------------------------------------------------------
(* Properties of overlapping registrations *)

\* C20: a createUser call whose count check saw fewer users of its key than
\* the limit returns success and a record is stored under its e-mail (its
\* own, or that of a call for the same e-mail that put after it), whatever
\* other calls wrote between its check and its put; so two overlapping calls with
\* distinct e-mails that both saw limit - 1 users both succeed and leave
\* limit + 1 users of the key.
C20_CheckThenPutNotAtomic ==
    \A p \in Procs :
        (/\ calls[p].pc = "done"
         /\ calls[p].counted >= 0
         /\ calls[p].counted < ConfiguredLimit(calls[p].userData.licenseKey)) =>
            /\ calls[p].thrown = NoError
            /\ Stored(users, calls[p].userData.email)
            /\ \E q \in Procs :
                    /\ calls[q].pc = "done"
                    /\ users[calls[p].userData.email] = calls[q].userData

\* both calls returned success, each after counting limit - 1 users of the
\* key, and the key now has limit + 1 users
C20_Witness ==
    /\ \A p \in Procs :
            /\ calls[p].pc = "done"
            /\ calls[p].thrown = NoError
            /\ calls[p].userData.licenseKey = "STUDENT_KEY_1"
            /\ calls[p].counted = licenseKeyLimits["STUDENT_KEY_1"] - 1
    /\ calls[1].userData.email # calls[2].userData.email
    /\ licenseKeyCount(users, "STUDENT_KEY_1") = licenseKeyLimits["STUDENT_KEY_1"] + 1

\* C21: the put of a createUser call that passed the existence check stores
\* the call's data under its e-mail, over a record another call has stored
\* there in the meantime, changes no other record, and the call returns
\* success; so of two overlapping calls for one e-mail both succeed and the
\* one record under the e-mail holds the data of the call that wrote last.
C21_SameEmailLastWriteWins ==
    [][\A p \in Procs :
        (calls[p].pc = "put" /\ calls'[p].pc = "done") =>
            LET userData == calls[p].userData IN
            /\ calls'[p].thrown = NoError
            /\ DOMAIN users' = (DOMAIN users) \cup {userData.email}
            /\ users'[userData.email] = userData
            /\ \A e \in (DOMAIN users) \ {userData.email} : users'[e] = users[e]]_vars

\* two calls for one e-mail with different data have both returned success
\* and the record stored is the one of the call that ended last
C21_Witness ==
    /\ \A p \in Procs : calls[p].pc = "done" /\ calls[p].thrown = NoError
    /\ calls[1].userData.email = calls[2].userData.email
    /\ calls[1].userData # calls[2].userData
    /\ users[calls[1].userData.email] = calls[2].userData
    /\ last.op = "createUser"
    /\ last.email = calls[2].userData.email

----------------------------------------------------------------------------
(* Properties of overlapping updateUser calls *)

\* C22: the put of an updateUser call stores the whole record the call made
\* from its own read and the call returns success, so a change another call
\* wrote between the read and the put is lost; when the record stored at the
\* put is still the one the call read, as it is when the calls do not
\* overlap, an 'add' leaves the stored codes followed by the new code.
C22_UpdateLastWriteWins ==
    [][\A p \in Procs :
        (calls[p].pc = "put" /\ calls'[p].pc = "done") =>
            LET call == calls[p] IN
            /\ calls'[p].thrown = NoError
            /\ Stored(users', call.email)
            /\ users'[call.email] = call.user
            /\ (/\ call.action = "add"
                /\ Stored(users, call.email)
                /\ users[call.email] = call.read) =>
                    users'[call.email].classCodesArray =
                        Append(users[call.email].classCodesArray, call.classCode)]_vars

\* two 'add' calls with different class codes for one user have both
\* returned success and the stored array holds only one of the two codes
C22_Witness ==
    /\ \A p \in Procs :
            calls[p].pc = "done" /\ calls[p].thrown = NoError /\ calls[p].action = "add"
    /\ calls[1].email = calls[2].email
    /\ calls[1].classCode # calls[2].classCode
    /\ calls[1].read = calls[2].read
    /\ Stored(users, calls[1].email)
    /\ Includes(users[calls[1].email].classCodesArray, calls[2].classCode)
    /\ ~Includes(users[calls[1].email].classCodesArray, calls[1].classCode)

\* C28: a step that is no createUser call stores no record under an e-mail
\* that had none before it: a record removed by deleteUser stays removed
\* until a createUser for the e-mail succeeds, also when an updateUser call
\* for the e-mail read the record before the removal.
C28_DeletedStaysDeleted ==
    [][\A e \in UserEmails :
        (~Stored(users, e) /\ Stored(users', e)) => last'.op = "createUser"]_vars

----------------------------------------------------------------------------
(* Properties of overlapping listings *)

\* C23: a listVideos call returns the entry of every metadata object it
\* listed that is still stored when it is fetched, passes the caller's filter
\* and has its payload stored; the listed objects that are gone by then are
\* left out and do not take the other entries with them.
C23_MissingItemSkipped ==
    [][\A p \in Procs :
        (calls[p].pc = "getObjects" /\ calls'[p].pc = "done") =>
            LET call == calls[p] IN
            calls'[p].videos =
                {Entry(objects, k) : k \in
                    {k \in call.listed \cap DOMAIN objects :
                        /\ call.accountType = "teacher" =>
                               TeacherFilter(objects[k], call.schoolName,
                                             call.classCodes)
                        /\ FilesExist(objects, k, objects[k].videoPath)}}]_vars

----------------------------------------------------------------------------
(* Properties of uploads by several users *)

\* the (schoolName, classCode, userEmail, title) of a metadata record
Tuple(metadata) ==
    <<metadata.schoolName, metadata.classCode, metadata.userEmail, metadata.title>>

\* C24: an uploadVideo call leaves alone the metadata and payload objects of
\* every video uploaded with another (schoolName, classCode, userEmail,
\* title), whether the uploader is a student or a teacher.
C24_DistinctTuplesDistinctKeys ==
    [][(last'.op = "uploadVideo" /\ objects' # objects) =>
        \A k \in DOMAIN objects :
            (/\ k.ext = "json"
             /\ Tuple(objects[k]) #
                    <<"Burnside", last'.classCode, last'.email, last'.title>>) =>
                /\ k \in DOMAIN objects' /\ objects'[k] = objects[k]
                /\ objects[k].videoPath \in DOMAIN objects =>
                       /\ objects[k].videoPath \in DOMAIN objects'
                       /\ objects'[objects[k].videoPath] =
                              objects[objects[k].videoPath]]_vars

AllListed ==
    UNION {listVideos(objects, e, "student", "Burnside", << >>, "none") :
              e \in {"a@x", "b@x"}}
    \cup listVideos(objects, "t@x", "teacher", "Burnside", <<"7A", "a@x">>, "none")

\* C29: every entry listVideos returns has viewed = false, also after
\* requests to /videos/view for the video's objects.
C29_ViewedStaysFalse == \A v \in AllListed : v.viewed = FALSE

\* /videos/view has just answered for the metadata object of a listed video
C29_Witness ==
    /\ last.op = "view"
    /\ last.thrown = ViewFailed
    /\ \E v \in AllListed : v.metadataKey = last.title /\ v.viewed = FALSE

----------------------------------------------------------------------------
(* Properties of the reset request and of registration *)

\* C25: the answer of /api/forgot-password does not depend on whether the
\* e-mail has a stored user: when no store call and no mail fails, every
\* request gets the answer a registered e-mail gets, the generic 200 message.
C25_ResetDoesNotReveal ==
    (last.op = "forgotPassword" /\ last.fault = "none") => last.thrown = ResetSent

\* C27: every record createUser has stored has a non-empty email, firstName
\* and accountType, so listUsers succeeds whenever its store calls do, and no
\* createUser call is rejected because of a stored record's format.
C27_StoredRecordsValid ==
    /\ \A e \in DOMAIN users : ~Malformed(users[e])
    /\ listUsersError(users, "none") = NoError
    /\ (last.op = "createUser" /\ last.fault = "none") => last.cause # MalformedMsg
====
